---- MODULE Spec2Model ----
(***************************************************************************)
(* The pricing core of BNBMARKET (src/rust-lmsr): ProbabilityEngine,       *)
(* MarketMakerEngine and RiskAssessmentEngine over rust_decimal::Decimal.  *)
(*                                                                         *)
(* Decimal is a sign, an integer mantissa and a scale (the number of       *)
(* fractional digits).  rust_decimal keeps a 96-bit mantissa and a scale   *)
(* of at most 28; the model keeps the same structure at a reduced width:   *)
(* a mantissa of MantDigits decimal digits and a scale of at most          *)
(* MaxScale.  Every operation rounds to nearest, ties to even, when the    *)
(* exact result does not fit, and overflows when the integer part does     *)
(* not fit, as the library does.  The operator forms (+, /, +=) panic      *)
(* where the checked_ forms return None.                                   *)
(***************************************************************************)
EXTENDS Integers, Sequences, FiniteSets, TLC

\* ------------------------------------------------------------------------
\* Width of the Decimal representation
\* ------------------------------------------------------------------------
MantDigits == 6
MaxScale == 6

MantLimit == 10 ^ MantDigits

\* ------------------------------------------------------------------------
\* Option and small helpers
\* ------------------------------------------------------------------------
None == [some |-> FALSE]
Some(v) == [some |-> TRUE, val |-> v]
IsNone(o) == ~o.some

\* `let v = d; F(v)`: F applied to the value of d, with d computed once
Only(S) == CHOOSE r \in S : TRUE
Bind(d, F(_)) == Only({F(v) : v \in {d}})
Bind2(d1, d2, F(_, _)) == Only({F(v, w) : v \in {d1}, w \in {d2}})
\* a sequence built by a map, with every element computed once
Eager(f) == f \o <<>>

Abs(x0) == Bind(x0, LAMBDA x : IF x < 0 THEN -x ELSE x)
Sgn(x0) == Bind(x0, LAMBDA x : IF x < 0 THEN -1 ELSE IF x = 0 THEN 0 ELSE 1)
Max2(x0, y0) == Bind2(x0, y0, LAMBDA x, y : IF x >= y THEN x ELSE y)

\* number of decimal digits of a natural number (0 has none)
Digits(n0) ==
    Bind(n0, LAMBDA n :
      IF n = 0 THEN 0
      ELSE CHOOSE d \in 1..10 : 10 ^ (d - 1) <= n /\ (d = 10 \/ n < 10 ^ d))

\* q + r/den rounded to the nearest integer, ties to even (0 <= r < den)
RoundHalfEven(q0, r0, den) ==
    Bind2(q0, r0, LAMBDA q, r :
      IF 2 * r > den \/ (2 * r = den /\ q % 2 = 1) THEN q + 1 ELSE q)

\* ------------------------------------------------------------------------
\* Decimal values
\* ------------------------------------------------------------------------
RECURSIVE Norm(_, _)
\* the same value without trailing fractional zeros (Decimal compares by value)
Norm(m0, e0) ==
    Bind2(m0, e0, LAMBDA m, e :
      IF m = 0 THEN [m |-> 0, e |-> 0]
      ELSE IF e > 0 /\ m % 10 = 0 THEN Norm(m \div 10, e - 1)
      ELSE [m |-> m, e |-> e])

Dec(m, e) == Norm(m, e)
DecFromInt(n) == Dec(n, 0)
ZERO == Dec(0, 0)
ONE == Dec(1, 0)
DecNeg(a0) == Bind(a0, LAMBDA a : [m |-> -a.m, e |-> a.e])
DecAbs(a0) == Bind(a0, LAMBDA a : [m |-> Abs(a.m), e |-> a.e])

\* q * 10^-s, a rounded quotient of up to MantDigits + 1 digits, as a Decimal
Rounded(q0, s0) ==
    Bind2(q0, s0, LAMBDA q, s :
      IF Abs(q) < MantLimit THEN Some(Norm(q, s))
      ELSE IF s = 0 THEN None
      ELSE Some(Norm(RoundHalfEven(q \div 10, q % 10, 10), s - 1)))

\* an exact value m * 10^-e brought into the representable range
FitDec(m0, e0) ==
    Bind2(m0, e0, LAMBDA m, e :
    Bind(Max2(0, Max2(e - MaxScale, Digits(Abs(m)) - MantDigits)), LAMBDA d :
      IF d > e THEN None
      ELSE Rounded(RoundHalfEven(m \div (10 ^ d), m % (10 ^ d), 10 ^ d), e - d)))

\* x + y for x the coarser operand and y the finer one: the exact sum, rounded
AddAligned(x, y) ==
    Bind(Max2(0, (y.e - x.e) - (MantDigits - Digits(Abs(x.m)))), LAMBDA d :
    Bind2(x.m * (10 ^ (y.e - x.e - d)) + (y.m \div (10 ^ d)), y.m % (10 ^ d),
          LAMBDA f, r :
    Bind(RoundHalfEven(f, r, 10 ^ d), LAMBDA q :
      IF Abs(q) < MantLimit THEN Some(Norm(q, y.e - d))
      ELSE IF d + 1 > y.e THEN None
      ELSE Some(Norm(RoundHalfEven(f \div 10, (f % 10) * (10 ^ d) + r, 10 ^ (d + 1)),
                     y.e - d - 1)))))

\* Decimal::checked_add: None for an overflow
checked_add(a0, b0) ==
    Bind2(a0, b0, LAMBDA a, b :
      IF a.m = 0 THEN Some(b)
      ELSE IF b.m = 0 THEN Some(a)
      ELSE IF a.e <= b.e THEN AddAligned(a, b) ELSE AddAligned(b, a))

\* Decimal::checked_sub
checked_sub(a, b) == checked_add(a, DecNeg(b))

\* a < b, a <= b by value (PartialOrd for Decimal)
DecLt(a0, b0) ==
    Bind2(a0, b0, LAMBDA a, b :
      IF a.m <= 0 /\ b.m > 0 THEN TRUE
      ELSE IF a.m >= 0 /\ b.m <= 0 THEN FALSE
      ELSE IF a.m < 0 /\ b.m = 0 THEN TRUE
      ELSE IF a.e <= b.e
           THEN Bind(b.e - a.e, LAMBDA k :
                  IF Digits(Abs(a.m)) + k > MantDigits + 1 THEN a.m < 0
                  ELSE a.m * (10 ^ k) < b.m)
           ELSE Bind(a.e - b.e, LAMBDA k :
                  IF Digits(Abs(b.m)) + k > MantDigits + 1 THEN b.m > 0
                  ELSE a.m < b.m * (10 ^ k)))
DecLe(a, b) == ~DecLt(b, a)

\* the product of two mantissas as hi * HalfSq + lo
Half == 10 ^ ((MantDigits + 1) \div 2)
HalfSq == Half * Half
HalfSqDigits == 2 * ((MantDigits + 1) \div 2)
MulHiLo(a, b) ==
    Bind2(a \div Half, a % Half, LAMBDA a1, a0 :
    Bind2(b \div Half, b % Half, LAMBDA b1, b0 :
    Bind(a1 * b0 + a0 * b1, LAMBDA cross :
    Bind((cross % Half) * Half + a0 * b0, LAMBDA lo1 :
      [hi |-> a1 * b1 + (cross \div Half) + (lo1 \div HalfSq), lo |-> lo1 % HalfSq]))))

BigDigits(p) == IF p.hi > 0 THEN Digits(p.hi) + HalfSqDigits ELSE Digits(p.lo)
\* floor(p / 10^d)
BigDiv(p, d) ==
    IF d >= HalfSqDigits THEN p.hi \div (10 ^ (d - HalfSqDigits))
    ELSE p.hi * (10 ^ (HalfSqDigits - d)) + (p.lo \div (10 ^ d))
\* p mod 10^d # 0
BigSticky(p, d) ==
    IF d >= HalfSqDigits THEN p.hi % (10 ^ (d - HalfSqDigits)) # 0 \/ p.lo # 0
    ELSE p.lo % (10 ^ d) # 0
\* p / 10^d rounded to nearest, ties to even
BigRound(p, d) ==
    IF d = 0 THEN BigDiv(p, 0)
    ELSE Bind2(BigDiv(p, d), BigDiv(p, d - 1) % 10, LAMBDA q, rd :
           IF rd > 5 \/ (rd = 5 /\ (BigSticky(p, d - 1) \/ q % 2 = 1)) THEN q + 1 ELSE q)

\* Decimal::checked_mul: None for an overflow
checked_mul(a0, b0) ==
    Bind2(a0, b0, LAMBDA a, b :
      IF a.m = 0 \/ b.m = 0 THEN Some(ZERO)
      ELSE
      Bind2(a.e + b.e, Sgn(a.m) * Sgn(b.m), LAMBDA s, sg :
      Bind(MulHiLo(Abs(a.m), Abs(b.m)), LAMBDA p :
      Bind(Max2(0, Max2(s - MaxScale, BigDigits(p) - MantDigits)), LAMBDA d :
        IF d > s THEN None
        ELSE Bind(BigRound(p, d), LAMBDA q :
               IF q >= MantLimit
               THEN (IF d + 1 > s THEN None ELSE Some(Norm(sg * (q \div 10), s - d - 1)))
               ELSE Some(Norm(sg * q, s - d)))))))

RECURSIVE DivLoop(_, _)
\* long division: one more quotient digit while it fits
DivLoop(st0, mb) ==
    Bind(st0, LAMBDA st :
      IF (st.r # 0 \/ st.s < 0) /\ st.q * 10 + 9 < MantLimit /\ st.s < MaxScale
      THEN DivLoop([q |-> st.q * 10 + ((st.r * 10) \div mb), r |-> (st.r * 10) % mb,
                    s |-> st.s + 1], mb)
      ELSE st)

\* Decimal::checked_div: None for a zero divisor and for an overflow
checked_div(a0, b0) ==
    Bind2(a0, b0, LAMBDA a, b :
      IF b.m = 0 THEN None
      ELSE IF a.m = 0 THEN Some(ZERO)
      ELSE
      Bind2(Abs(a.m), Abs(b.m), LAMBDA ma, mb :
      Bind(DivLoop([q |-> ma \div mb, r |-> ma % mb, s |-> a.e - b.e], mb), LAMBDA st :
      Bind2(Sgn(a.m) * Sgn(b.m), RoundHalfEven(st.q, st.r, mb), LAMBDA sg, q :
        IF st.s < 0 THEN None
        ELSE IF q >= MantLimit
        THEN (IF st.s = 0 THEN None ELSE Some(Norm(sg * (q \div 10), st.s - 1)))
        ELSE Some(Norm(sg * q, st.s))))))

\* ------------------------------------------------------------------------
\* Decimal::exp (MathematicalOps)
\* ------------------------------------------------------------------------
\* exp() returns e^x rounded to the precision of the type and panics when the
\* result cannot be computed in range; the library's power series leaves the
\* 96-bit range for arguments above 11.76 ("Exp overflowed").  e^x is computed
\* here as e^i * e^(d1/10) * e^(d2/100) * (1 + r + r^2/2) for
\* x = i + d1/10 + d2/100 + r, 0 <= r < 1/100, from six-digit tables.
ExpOverflowArg == Dec(1176, 2)
ExpInt ==
    << Dec(100000, 5), Dec(271828, 5), Dec(738906, 5), Dec(200855, 4),
       Dec(545982, 4), Dec(148413, 3), Dec(403429, 3), Dec(109663, 2),
       Dec(298096, 2), Dec(810308, 2), Dec(220265, 1), Dec(598741, 1) >>
ExpTenth ==
    << Dec(100000, 5), Dec(110517, 5), Dec(122140, 5), Dec(134986, 5),
       Dec(149182, 5), Dec(164872, 5), Dec(182212, 5), Dec(201375, 5),
       Dec(222554, 5), Dec(245960, 5) >>
ExpHundredth ==
    << Dec(100000, 5), Dec(101005, 5), Dec(102020, 5), Dec(103045, 5),
       Dec(104081, 5), Dec(105127, 5), Dec(106184, 5), Dec(107251, 5),
       Dec(108329, 5), Dec(109417, 5) >>

\* floor(x * 100) for a Decimal 0 <= x < 12
Hundredths(x) ==
    IF x.e <= 2 THEN x.m * (10 ^ (2 - x.e)) ELSE x.m \div (10 ^ (x.e - 2))

\* x - Hundredths(x)/100, exactly
ExpRest(x) == IF x.e <= 2 THEN ZERO ELSE Dec(x.m % (10 ^ (x.e - 2)), x.e)

\* 1 + r + r^2/2
ExpTail(r0) ==
    Bind(r0, LAMBDA r :
      checked_add(checked_add(ONE, r).val,
                  checked_div(checked_mul(r, r).val, Dec(2, 0)).val).val)

\* e^x for a Decimal 0 < x <= ExpOverflowArg
ExpPositive(x0) ==
    Bind(x0, LAMBDA x :
    Bind(Hundredths(x), LAMBDA h :
    Bind(checked_mul(checked_mul(ExpInt[(h \div 100) + 1],
                                 ExpTenth[((h \div 10) % 10) + 1]).val,
                     ExpHundredth[(h % 10) + 1]).val, LAMBDA fine :
      IF x.e <= 2 THEN fine ELSE checked_mul(fine, ExpTail(ExpRest(x))).val)))

\* MathematicalOps::checked_exp: None where exp() panics
checked_exp(x0) ==
    Bind(x0, LAMBDA x :
      IF x.m = 0 THEN Some(ONE)
      ELSE IF DecLt(ExpOverflowArg, DecAbs(x)) THEN None
      ELSE IF x.m < 0 THEN checked_div(ONE, ExpPositive(DecAbs(x)))
      ELSE Some(ExpPositive(x)))

\* ------------------------------------------------------------------------
\* Decimal::ln (MathematicalOps)
\* ------------------------------------------------------------------------
\* ln() returns the natural logarithm rounded to the precision of the type and
\* panics for zero and for negative numbers.  For x = y * 10^k with
\* 1 <= y < 10, y = d * (1 + t/10) * f with d the leading digit and
\* 1 <= f < 1.1: ln x = ln d + ln(1 + t/10) + 2z(1 + z^2/3) + k ln 10,
\* z = (f - 1)/(f + 1), from six-digit tables.
LnLead ==
    << Dec(0, 0), Dec(693147, 6), Dec(109861, 5), Dec(138629, 5),
       Dec(160944, 5), Dec(179176, 5), Dec(194591, 5), Dec(207944, 5),
       Dec(219722, 5) >>
LnTenth ==
    << Dec(0, 0), Dec(953102, 7), Dec(182322, 6), Dec(262364, 6),
       Dec(336472, 6), Dec(405465, 6), Dec(470004, 6), Dec(530628, 6),
       Dec(587787, 6), Dec(641854, 6) >>
Ln10 == Dec(230259, 5)

\* 2z(1 + z^2/3) for z = (f - 1)/(f + 1): ln f for f close to 1
LnNearOne(f0) ==
    Bind(f0, LAMBDA f :
    Bind(checked_div(checked_sub(f, ONE).val, checked_add(f, ONE).val).val, LAMBDA z :
      checked_mul(checked_mul(Dec(2, 0), z).val,
                  checked_add(ONE, checked_div(checked_mul(z, z).val,
                                               Dec(3, 0)).val).val).val))

\* ln of f1 = y / lead, 1 <= f1 < 2
LnFraction(f0) ==
    Bind(f0, LAMBDA f1 :
    Bind(IF f1.e = 0 THEN 0 ELSE (f1.m \div (10 ^ (f1.e - 1))) % 10, LAMBDA tenth :
      checked_add(LnTenth[tenth + 1],
                  LnNearOne(checked_div(f1, Dec(10 + tenth, 1)).val)).val))

\* ln x for a Decimal x > 0
LnPositive(x0) ==
    Bind(x0, LAMBDA x :
      IF DecLe(Dec(9, 1), x) /\ DecLt(x, Dec(11, 1)) THEN LnNearOne(x)
      ELSE
      Bind(Digits(x.m), LAMBDA dg :
      Bind(x.m \div (10 ^ (dg - 1)), LAMBDA lead :
        checked_add(
          checked_add(LnLead[lead],
                      LnFraction(checked_div(Dec(x.m, dg - 1), DecFromInt(lead)).val)).val,
          checked_mul(DecFromInt(dg - 1 - x.e), Ln10).val).val)))

\* MathematicalOps::checked_ln: None where ln() panics
checked_ln(x0) == Bind(x0, LAMBDA x : IF x.m <= 0 THEN None ELSE Some(LnPositive(x)))

\* ------------------------------------------------------------------------
\* f64 at the boundary
\* ------------------------------------------------------------------------
\* An f64 is NaN, an infinity, or a finite value m * 10^-e of at most
\* F64Digits significant digits; its exponent range is far wider than the
\* range of Decimal (e may be negative).
F64Digits == 5
NaN == [cls |-> "nan", m |-> 0, e |-> 0]
Infinity == [cls |-> "inf", m |-> 1, e |-> 0]
RECURSIVE F64(_, _)
F64(m0, e0) ==
    Bind2(m0, e0, LAMBDA m, e :
      IF m = 0 THEN [cls |-> "fin", m |-> 0, e |-> 0]
      ELSE IF m % 10 = 0 THEN F64(m \div 10, e - 1)
      ELSE [cls |-> "fin", m |-> m, e |-> e])

\* Decimal::from_f64: None for NaN, the infinities and values out of range
from_f64(f0) ==
    Bind(f0, LAMBDA f :
      IF f.cls # "fin" THEN None
      ELSE IF f.e >= 0 THEN FitDec(f.m, f.e)
      ELSE IF Digits(Abs(f.m)) - f.e > MantDigits THEN None
      ELSE Some(Dec(f.m * (10 ^ (-f.e)), 0)))

\* Decimal::to_f64: the nearest f64
to_f64(d0) ==
    Bind(d0, LAMBDA d :
    Bind(Max2(0, Digits(Abs(d.m)) - F64Digits), LAMBDA k :
      F64(RoundHalfEven(d.m \div (10 ^ k), d.m % (10 ^ k), 10 ^ k), d.e - k)))

\* ------------------------------------------------------------------------
\* Results: Ok(value), Err(MarketError) or a panic (the call aborts)
\* ------------------------------------------------------------------------
Ok(v) == [tag |-> "Ok", kind |-> "", index |-> 0, msg |-> "", val |-> v]
InvalidOutcomeIndex(i) ==
    [tag |-> "Err", kind |-> "InvalidOutcomeIndex", index |-> i, msg |-> "", val |-> <<>>]
InvalidLiquidity(reason) ==
    [tag |-> "Err", kind |-> "InvalidLiquidity", index |-> 0, msg |-> reason, val |-> <<>>]
CalculationError(reason) ==
    [tag |-> "Err", kind |-> "CalculationError", index |-> 0, msg |-> reason, val |-> <<>>]
Panic(reason) == [tag |-> "Panic", kind |-> "", index |-> 0, msg |-> reason, val |-> <<>>]
IsOk(r) == r.tag = "Ok"
IsErr(r) == r.tag = "Err"
IsPanic(r) == r.tag = "Panic"

\* ------------------------------------------------------------------------
\* Vector helpers
\* ------------------------------------------------------------------------
RECURSIVE AnyNone(_, _)
AnyNone(v, i) == IF i > Len(v) THEN FALSE ELSE IsNone(v[i]) \/ AnyNone(v, i + 1)
\* iter().map(f).collect() for an f that may panic: None when an element panics
Collect(v0) ==
    Bind(Eager(v0), LAMBDA v :
      IF AnyNone(v, 1) THEN None ELSE Some([i \in 1..Len(v) |-> v[i].val] \o <<>>))

RECURSIVE DecMaxFrom(_, _, _)
DecMaxFrom(v, i, best0) ==
    Bind(best0, LAMBDA best :
      IF i > Len(v) THEN best
      ELSE DecMaxFrom(v, i + 1, IF DecLt(v[i], best) THEN best ELSE v[i]))
\* iter().max_by(partial_cmp).unwrap_or(ZERO): the last of the greatest
DecMax(v) == IF Len(v) = 0 THEN ZERO ELSE DecMaxFrom(v, 2, v[1])

RECURSIVE CheckedSumFrom(_, _, _)
\* try_fold(acc, checked_add); iter().sum() panics where this is None
CheckedSumFrom(v, i, acc0) ==
    Bind(acc0, LAMBDA acc :
      IF i > Len(v) THEN Some(acc)
      ELSE Bind(checked_add(acc, v[i]), LAMBDA next :
             IF IsNone(next) THEN None ELSE CheckedSumFrom(v, i + 1, next.val)))
\* a variant of the sum that leaves out the first element
CheckedSumOfTail(v) == CheckedSumFrom(v, 2, ZERO)
CheckedSum(v) == CheckedSumFrom(v, 1, ZERO)

\* the first element of a sequence of results that is not Ok, or Ok of the values
RECURSIVE FirstFailure(_, _)
FirstFailure(v, i) ==
    IF i > Len(v) THEN Ok([j \in 1..Len(v) |-> v[j].val] \o <<>>)
    ELSE IF ~IsOk(v[i]) THEN v[i]
    ELSE FirstFailure(v, i + 1)

\* ------------------------------------------------------------------------
\* ProbabilityEngine (probability_engine.rs)
\* ------------------------------------------------------------------------
\* a variant of FirstInvalidBet that reports the last offending bet (rfind)
LastInvalidBet(num_outcomes, bets) ==
    Bind({i \in 1..Len(bets) : bets[i].option_id >= num_outcomes}, LAMBDA bad :
      IF bad = {} THEN 0 ELSE CHOOSE i \in bad : \A j \in bad : i >= j)

\* bets.iter().find(|b| b.option_id >= num_outcomes): 0 when there is none
FirstInvalidBet(num_outcomes, bets) ==
    Bind({i \in 1..Len(bets) : bets[i].option_id >= num_outcomes}, LAMBDA bad :
      IF bad = {} THEN 0 ELSE CHOOSE i \in bad : \A j \in bad : i <= j)

\* a variant of the conversion of a stake that counts an amount without a
\* Decimal value as one unit
bet_amount_or_one(bet) ==
    Bind(from_f64(bet.amount), LAMBDA a : IF IsNone(a) THEN ONE ELSE a.val)

\* Decimal::from_f64(bet.amount).unwrap_or(Decimal::ZERO)
bet_amount(bet) ==
    Bind(from_f64(bet.amount), LAMBDA a : IF IsNone(a) THEN ZERO ELSE a.val)

RECURSIVE AccumulateLatest(_, _, _)
\* a variant of the accumulation in which a bet replaces the total of its
\* outcome (= instead of +=)
AccumulateLatest(totals0, bets, i) ==
    Bind(totals0, LAMBDA outcome_totals :
      IF i > Len(bets) THEN Some(outcome_totals)
      ELSE AccumulateLatest([outcome_totals EXCEPT ![bets[i].option_id + 1] =
                                                     bet_amount(bets[i])], bets, i + 1))

RECURSIVE Accumulate(_, _, _)
\* for bet in bets { outcome_totals[bet.option_id] += bet_amount }: None when
\* += overflows (a panic)
Accumulate(totals0, bets, i) ==
    Bind(totals0, LAMBDA outcome_totals :
      IF i > Len(bets) THEN Some(outcome_totals)
      ELSE Bind(bets[i].option_id + 1, LAMBDA slot :
           Bind(checked_add(outcome_totals[slot], bet_amount(bets[i])), LAMBDA total :
             IF IsNone(total) THEN None
             ELSE Accumulate([outcome_totals EXCEPT ![slot] = total.val], bets, i + 1))))

\* max_total / 10
ScaleDivisor == Dec(10, 0)
\* a variant of the scale factor that does not follow the totals
fixed_scale_factor(outcome_totals) == ScaleDivisor
scale_factor_of(outcome_totals) == checked_div(DecMax(outcome_totals), ScaleDivisor).val

\* a variant of the exponent that divides the scale factor by the total
scale_factor_over_total(total, scale_factor) == checked_div(scale_factor, total)
\* the exponent of an outcome: total / scale_factor (None where / panics)
scaled_total(total, scale_factor) == checked_div(total, scale_factor)

\* |&total| { let scaled_total = total / scale_factor; scaled_total.exp() }
exp_value(total, scale_factor) ==
    Bind(scaled_total(total, scale_factor), LAMBDA scaled :
      IF IsNone(scaled)
      THEN Panic(IF scale_factor.m = 0 THEN "Division by zero" ELSE "Division overflowed")
      ELSE Bind(checked_exp(scaled.val), LAMBDA e :
             IF IsNone(e) THEN Panic("Exp overflowed") ELSE Ok(e.val)))

\* a variant of Normalise that returns the exponentials undivided
Unnormalised(exp_values, sum_exp) == Ok(exp_values)

\* exp_val.checked_div(sum_exp).ok_or_else(CalculationError) for every value
Normalise(exp_values, sum_exp) ==
    Bind(Collect([i \in 1..Len(exp_values) |-> checked_div(exp_values[i], sum_exp)]),
         LAMBDA probabilities :
      IF IsNone(probabilities)
      THEN CalculationError("Division by zero in probability calculation")
      ELSE Ok(probabilities.val))

\* the part of calculate_probabilities after the totals are known
ProbabilitiesFromTotals(totals0) ==
    Bind(totals0, LAMBDA outcome_totals :
    Bind(scale_factor_of(outcome_totals), LAMBDA scale_factor :
    Bind(FirstFailure(Eager([i \in 1..Len(outcome_totals) |->
                               exp_value(outcome_totals[i], scale_factor)]), 1),
         LAMBDA exp_values :
      IF ~IsOk(exp_values) THEN exp_values
      ELSE Bind(CheckedSum(exp_values.val), LAMBDA sum_exp :
             IF IsNone(sum_exp) THEN CalculationError("Numerical overflow in sum")
             ELSE Normalise(exp_values.val, sum_exp.val)))))

\* a variant of the seeding that leaves every slot but the first empty
seed_first_slot(initial_liquidity, num_outcomes) ==
    [i \in 1..num_outcomes |-> IF i = 1 THEN initial_liquidity ELSE ZERO] \o <<>>

\* vec![initial_liquidity; num_outcomes]
Seed(initial_liquidity, num_outcomes) ==
    [i \in 1..num_outcomes |-> initial_liquidity] \o <<>>

\* ProbabilityEngine::calculate_probabilities
calculate_probabilities(config, bets) ==
    Bind(FirstInvalidBet(config.num_outcomes, bets), LAMBDA bad :
      IF bad # 0 THEN InvalidOutcomeIndex(bets[bad].option_id)
      ELSE
      Bind(from_f64(config.liquidity_param), LAMBDA liquidity :
        IF IsNone(liquidity) THEN InvalidLiquidity("Invalid liquidity parameter")
        ELSE
        Bind(checked_div(liquidity.val, DecFromInt(config.num_outcomes)),
             LAMBDA initial_liquidity :
          IF IsNone(initial_liquidity) THEN Panic("Division by zero")
          ELSE
          Bind(Accumulate(Seed(initial_liquidity.val, config.num_outcomes), bets, 1),
               LAMBDA outcome_totals :
            IF IsNone(outcome_totals) THEN Panic("Addition overflowed")
            ELSE ProbabilitiesFromTotals(outcome_totals.val)))))

\* a variant of calculate_price that ignores the index and prices outcome 0
price_of_first_outcome(config, bets, outcome_index) ==
    IF outcome_index >= config.num_outcomes THEN InvalidOutcomeIndex(outcome_index)
    ELSE Bind(calculate_probabilities(config, bets), LAMBDA probabilities :
           IF ~IsOk(probabilities) THEN probabilities
           ELSE Ok(probabilities.val[1]))

\* a variant of calculate_price that delegates before it looks at the index
price_after_delegation(config, bets, outcome_index) ==
    Bind(calculate_probabilities(config, bets), LAMBDA probabilities :
      IF ~IsOk(probabilities) THEN probabilities
      ELSE IF outcome_index + 1 \in DOMAIN probabilities.val
      THEN Ok(probabilities.val[outcome_index + 1])
      ELSE InvalidOutcomeIndex(outcome_index))

\* ProbabilityEngine::calculate_price
calculate_price(config, bets, outcome_index) ==
    IF outcome_index >= config.num_outcomes THEN InvalidOutcomeIndex(outcome_index)
    ELSE Bind(calculate_probabilities(config, bets), LAMBDA probabilities :
           IF ~IsOk(probabilities) THEN probabilities
           ELSE IF outcome_index + 1 \in DOMAIN probabilities.val
           THEN Ok(probabilities.val[outcome_index + 1])
           ELSE InvalidOutcomeIndex(outcome_index))

\* ------------------------------------------------------------------------
\* The pricing routine of the market maker and of the risk engine
\* ------------------------------------------------------------------------
RECURSIVE AccumulateValidated(_, _, _, _)
\* the loop that validates each bet as it adds it: the totals, the first
\* invalid option_id reached, or a panic of +=
AccumulateValidated(num_outcomes, totals0, bets, i) ==
    Bind(totals0, LAMBDA outcome_totals :
      IF i > Len(bets) THEN Ok(outcome_totals)
      ELSE IF bets[i].option_id >= num_outcomes
      THEN InvalidOutcomeIndex(bets[i].option_id)
      ELSE Bind(bets[i].option_id + 1, LAMBDA slot :
           Bind(checked_add(outcome_totals[slot], bet_amount(bets[i])), LAMBDA total :
             IF IsNone(total) THEN Panic("Addition overflowed")
             ELSE AccumulateValidated(num_outcomes,
                      [outcome_totals EXCEPT ![slot] = total.val], bets, i + 1))))

\* let total_volume = outcome_totals.iter().sum();
\* outcome_totals.iter().map(|&amount| Ok(amount / total_volume)).collect()
LinearShares(totals0) ==
    Bind(totals0, LAMBDA outcome_totals :
    Bind(CheckedSum(outcome_totals), LAMBDA total_volume :
      IF IsNone(total_volume) THEN Panic("Addition overflowed")
      ELSE Bind(Collect([i \in 1..Len(outcome_totals) |->
                           checked_div(outcome_totals[i], total_volume.val)]),
                LAMBDA shares :
             IF IsNone(shares)
             THEN Panic(IF total_volume.val.m = 0 THEN "Division by zero"
                                                  ELSE "Division overflowed")
             ELSE Ok(shares.val))))

\* MarketMakerEngine::calculate_market_probabilities
mm_calculate_market_probabilities(config, bets) ==
    Bind(from_f64(config.liquidity_param), LAMBDA liquidity_param :
      IF IsNone(liquidity_param) THEN InvalidLiquidity("Invalid liquidity parameter")
      ELSE
      Bind(checked_div(liquidity_param.val, DecFromInt(config.num_outcomes)),
           LAMBDA initial_liquidity :
        IF IsNone(initial_liquidity) THEN Panic("Division by zero")
        ELSE
        Bind(AccumulateValidated(config.num_outcomes,
                 Seed(initial_liquidity.val, config.num_outcomes), bets, 1),
             LAMBDA totals :
          IF ~IsOk(totals) THEN totals ELSE LinearShares(totals.val))))

\* RiskAssessmentEngine::calculate_market_probabilities
risk_calculate_market_probabilities(config, bets) ==
    Bind(from_f64(config.liquidity_param), LAMBDA liquidity_param :
      IF IsNone(liquidity_param) THEN InvalidLiquidity("Invalid liquidity parameter")
      ELSE
      Bind(checked_div(liquidity_param.val, DecFromInt(config.num_outcomes)),
           LAMBDA initial_liquidity :
        IF IsNone(initial_liquidity) THEN Panic("Division by zero")
        ELSE
        Bind(AccumulateValidated(config.num_outcomes,
                 Seed(initial_liquidity.val, config.num_outcomes), bets, 1),
             LAMBDA totals :
          IF ~IsOk(totals) THEN totals ELSE LinearShares(totals.val))))

\* |&p| if p > Decimal::ZERO { p * p.ln() } else { Decimal::ZERO }
EntropyTerm(p0) ==
    Bind(p0, LAMBDA p :
      IF p.m > 0 THEN checked_mul(p, checked_ln(p).val) ELSE Some(ZERO))
\* -probabilities.iter().map(..).sum(): None when an operator panics
Entropy(probabilities) ==
    Bind(Collect([i \in 1..Len(probabilities) |-> EntropyTerm(probabilities[i])]),
         LAMBDA terms :
      IF IsNone(terms) THEN None
      ELSE Bind(CheckedSum(terms.val), LAMBDA total :
             IF IsNone(total) THEN None ELSE Some(DecNeg(total.val))))

\* ------------------------------------------------------------------------
\* MarketMakerEngine (market_maker.rs)
\* ------------------------------------------------------------------------
BidFactor == Dec(95, 2)
AskFactor == Dec(105, 2)
calculate_bid_prices(probabilities) ==
    Collect([i \in 1..Len(probabilities) |-> checked_mul(probabilities[i], BidFactor)])
calculate_ask_prices(probabilities) ==
    Collect([i \in 1..Len(probabilities) |-> checked_mul(probabilities[i], AskFactor)])

\* a variant of calculate_spread that subtracts the ask from the bid
inverted_spread(bid_prices, ask_prices) ==
    Bind(Collect([i \in 1..Len(bid_prices) |-> checked_sub(bid_prices[i], ask_prices[i])]),
         LAMBDA diffs :
      IF IsNone(diffs) THEN None
      ELSE Bind(CheckedSum(diffs.val), LAMBDA total :
             IF IsNone(total) THEN None
             ELSE checked_div(total.val, DecFromInt(Len(bid_prices)))))

\* a variant of calculate_spread that does not divide by the number of prices
total_spread(bid_prices, ask_prices) ==
    Bind(Collect([i \in 1..Len(bid_prices) |-> checked_sub(ask_prices[i], bid_prices[i])]),
         LAMBDA diffs :
      IF IsNone(diffs) THEN None ELSE CheckedSum(diffs.val))

\* sum(ask - bid) / len
calculate_spread(bid_prices, ask_prices) ==
    Bind(Collect([i \in 1..Len(bid_prices) |-> checked_sub(ask_prices[i], bid_prices[i])]),
         LAMBDA diffs :
      IF IsNone(diffs) THEN None
      ELSE Bind(CheckedSum(diffs.val), LAMBDA total :
             IF IsNone(total) THEN None
             ELSE checked_div(total.val, DecFromInt(Len(bid_prices)))))

\* a variant of calculate_recommended_liquidity that consults market_type: a
\* Binary market is recommended its own liquidity_param
recommended_liquidity_by_market_type(config, probabilities) ==
    Bind2(Entropy(probabilities), from_f64(config.liquidity_param),
          LAMBDA entropy, liquidity_param :
      IF IsNone(entropy) THEN None
      ELSE Bind(checked_add(ONE, entropy.val), LAMBDA factor :
             IF IsNone(factor) THEN None
             ELSE checked_mul(IF IsNone(liquidity_param) THEN Dec(10, 0)
                                                         ELSE liquidity_param.val,
                              IF config.market_type = "Binary" THEN ONE
                                                               ELSE factor.val)))

\* liquidity_param * (1 + entropy)
calculate_recommended_liquidity(config, probabilities) ==
    Bind2(Entropy(probabilities), from_f64(config.liquidity_param),
          LAMBDA entropy, liquidity_param :
      IF IsNone(entropy) THEN None
      ELSE Bind(checked_add(ONE, entropy.val), LAMBDA factor :
             IF IsNone(factor) THEN None
             ELSE checked_mul(IF IsNone(liquidity_param) THEN Dec(10, 0)
                                                         ELSE liquidity_param.val,
                              factor.val)))

F64Vec(v) == [i \in 1..Len(v) |-> to_f64(v[i])] \o <<>>

\* MarketMakerEngine::simulate_strategy
simulate_strategy(config, bets) ==
    Bind(mm_calculate_market_probabilities(config, bets), LAMBDA probabilities :
      IF ~IsOk(probabilities) THEN probabilities
      ELSE
      Bind2(calculate_bid_prices(probabilities.val),
            calculate_ask_prices(probabilities.val), LAMBDA bid_prices, ask_prices :
        IF IsNone(bid_prices) \/ IsNone(ask_prices) THEN Panic("Multiplication overflowed")
        ELSE
        Bind2(calculate_spread(bid_prices.val, ask_prices.val),
              calculate_recommended_liquidity(config, probabilities.val),
              LAMBDA spread, recommended_liquidity :
          IF IsNone(spread) \/ IsNone(recommended_liquidity)
          THEN Panic("Arithmetic overflowed")
          ELSE Ok([bid_prices |-> F64Vec(bid_prices.val),
                   ask_prices |-> F64Vec(ask_prices.val),
                   spread |-> to_f64(spread.val),
                   recommended_liquidity |-> to_f64(recommended_liquidity.val)]))))

\* ------------------------------------------------------------------------
\* RiskAssessmentEngine (risk_assessment.rs)
\* ------------------------------------------------------------------------
\* a variant of calculate_entropy that measures in bits: -sum(p * log2(p))
entropy_in_bits(probabilities) ==
    Bind(Entropy(probabilities), LAMBDA nats :
      IF IsNone(nats) THEN None
      ELSE checked_div(nats.val, checked_ln(DecFromInt(2)).val))

calculate_entropy(probabilities) == Entropy(probabilities)

\* a variant of calculate_concentration: the Herfindahl index, sum(p * p)
herfindahl_index(probabilities) ==
    CheckedSum([i \in 1..Len(probabilities) |->
                   checked_mul(probabilities[i], probabilities[i]).val] \o <<>>).val

\* max_by(partial_cmp).unwrap_or(ZERO)
calculate_concentration(probabilities) == DecMax(probabilities)

\* (p - mean_prob).powi(2)
SquaredDeviation(p, mean_prob) ==
    Bind(checked_sub(p, mean_prob), LAMBDA d :
      IF IsNone(d) THEN None ELSE checked_mul(d.val, d.val))

\* mean((p - mean)^2): None when an operator panics
estimate_volatility(probabilities) ==
    Bind2(DecFromInt(Len(probabilities)), CheckedSum(probabilities), LAMBDA n, total :
      IF IsNone(total) THEN None
      ELSE Bind(checked_div(total.val, n), LAMBDA mean_prob :
        IF IsNone(mean_prob) THEN None
        ELSE Bind(Collect([i \in 1..Len(probabilities) |->
                             SquaredDeviation(probabilities[i], mean_prob.val)]),
                  LAMBDA squares :
          IF IsNone(squares) THEN None
          ELSE Bind(CheckedSum(squares.val), LAMBDA sum_sq :
            IF IsNone(sum_sq) THEN None ELSE checked_div(sum_sq.val, n)))))

\* a variant of assess_liquidity_risk that takes the first bet for the largest
first_bet_share(bets) ==
    Bind(Eager([i \in 1..Len(bets) |-> bet_amount(bets[i])]), LAMBDA amounts :
    Bind(CheckedSum(amounts), LAMBDA total_volume :
      IF IsNone(total_volume) THEN None
      ELSE IF total_volume.val.m > 0 THEN checked_div(amounts[1], total_volume.val)
      ELSE Some(ONE)))

\* a variant of assess_liquidity_risk that reports no risk when there is no
\* volume
no_volume_is_no_risk(bets) ==
    Bind(Eager([i \in 1..Len(bets) |-> bet_amount(bets[i])]), LAMBDA amounts :
    Bind(CheckedSum(amounts), LAMBDA total_volume :
      IF IsNone(total_volume) THEN None
      ELSE IF total_volume.val.m > 0 THEN checked_div(DecMax(amounts), total_volume.val)
      ELSE Some(ZERO)))

\* max_bet / total_volume, or ONE when there is no volume
assess_liquidity_risk(bets) ==
    Bind(Eager([i \in 1..Len(bets) |-> bet_amount(bets[i])]), LAMBDA amounts :
    Bind(CheckedSum(amounts), LAMBDA total_volume :
      IF IsNone(total_volume) THEN None
      ELSE IF total_volume.val.m > 0 THEN checked_div(DecMax(amounts), total_volume.val)
      ELSE Some(ONE)))

\* RiskAssessmentEngine::assess_risk
assess_risk(config, bets) ==
    Bind(risk_calculate_market_probabilities(config, bets), LAMBDA probabilities :
      IF ~IsOk(probabilities) THEN probabilities
      ELSE
      Bind2(calculate_entropy(probabilities.val),
            estimate_volatility(probabilities.val), LAMBDA entropy, expected_volatility :
      Bind(assess_liquidity_risk(bets), LAMBDA liquidity_risk :
        IF IsNone(entropy) \/ IsNone(expected_volatility) \/ IsNone(liquidity_risk)
        THEN Panic("Arithmetic overflowed")
        ELSE Ok([probabilities |-> F64Vec(probabilities.val),
                 entropy |-> to_f64(entropy.val),
                 concentration |-> to_f64(calculate_concentration(probabilities.val)),
                 expected_volatility |-> to_f64(expected_volatility.val),
                 liquidity_risk |-> to_f64(liquidity_risk.val)]))))

\* ------------------------------------------------------------------------
\* Inputs
\* ------------------------------------------------------------------------
MaxOutcomes == 3
MaxBets == 2

Bet(option_id, amount) == [option_id |-> option_id, amount |-> amount]
MarketConfig(liquidity_param, num_outcomes, market_type) ==
    [liquidity_param |-> liquidity_param, num_outcomes |-> num_outcomes,
     market_type |-> market_type]
MarketType == {"Binary", "Categorical", "Scalar"}

\* a finite f64 beyond the range of Decimal, and the smallest positive inputs
HugeF64 == F64(1, -(MantDigits + MaxScale))
TinyF64 == F64(2, MaxScale)
\* a stake that fits the Decimal range once but not twice
BigAmount == F64(6, -(MantDigits - 1))

LiquidityValues ==
    {NaN, Infinity, HugeF64, TinyF64, F64(0, 0), F64(-10, 0), F64(10, 0)}
\* an option_id that is out of range for every market of the model
OutOfRangeId == MaxOutcomes + 2
BetValues ==
    {Bet(0, F64(50, 0)), Bet(1, F64(30, 0)), Bet(0, BigAmount),
     Bet(2, F64(30, 0)), Bet(OutOfRangeId, F64(50, 0)),
     Bet(1, NaN), Bet(1, F64(-30, 0))}

RECURSIVE SeqsUpTo(_, _)
SeqsUpTo(S, n) ==
    IF n = 0 THEN {<<>>}
    ELSE LET shorter == SeqsUpTo(S, n - 1)
         IN  shorter \cup {Append(q, b) : q \in {r \in shorter : Len(r) = n - 1}, b \in S}

\* ------------------------------------------------------------------------
\* The boundary of PredictionMarketEngine: what the host receives
\* ------------------------------------------------------------------------
InsufficientData(reason) ==
    [tag |-> "Err", kind |-> "InsufficientData", index |-> 0, msg |-> reason, val |-> <<>>]

\* `{:?}` of a MarketError: the name of the variant and its payload, a number
\* printed in decimal, a string printed in quotes
debug_fmt(e) ==
    IF e.kind = "InvalidOutcomeIndex"
    THEN e.kind \o "(" \o ToString(e.index) \o ")"
    ELSE e.kind \o "(\"" \o e.msg \o "\")"

\* the text each operation of the facade puts before the error
error_prefix(op) ==
    CASE op = "calculate_probabilities" -> "Probability calculation error: "
      [] op = "simulate_strategy" -> "Market making error: "
      [] op = "assess_risk" -> "Risk assessment error: "
      [] op = "calculate_price" -> "Price calculation error: "

\* a facade that would only report which operation failed
js_error_without_cause(op, e) == error_prefix(op) \o "failed"
\* JsValue::from_str(&format!("<prefix>{:?}", e))
js_error(op, e) == error_prefix(op) \o debug_fmt(e)

NoJsValue == [tag |-> "None", val |-> <<>>]
\* what crosses the boundary when operation op of an engine returned r: the
\* values as f64, an error as a string; an abort carries no value
to_js(op, r) ==
    CASE r.tag = "Ok" ->
             [tag |-> "Ok",
              val |-> CASE op = "calculate_probabilities" -> F64Vec(r.val)
                        [] op = "calculate_price" -> to_f64(r.val)
                        [] OTHER -> r.val]
      [] r.tag = "Err" -> [tag |-> "Err", val |-> js_error(op, r)]
      [] OTHER -> [tag |-> r.tag, val |-> <<>>]

\* ------------------------------------------------------------------------
\* The caller and the engine
\* ------------------------------------------------------------------------
\* config: the MarketConfig the facade and every engine hold
\* (PredictionMarketEngine::new); threads: the callers of the one engine, each
\* with the bet list it supplies, the operation it invoked last (call), its
\* index argument and what the operation returned.
VARIABLES config, threads

\* The services beside the engine, which share no state with it.
\* SecurityManager: ip_blacklist, user_blacklist, event_log.
\* MarketSafetyManager: market_bets (the histories behind their mutex, and
\* whether that mutex is poisoned), blacklisted_addresses, and callers, the
\* threads that call the manager, each with its position in assess_bet_risk.
VARIABLES ip_blacklist, user_blacklist, event_log,
          market_bets, market_bets_poisoned, blacklisted_addresses, callers

security_manager == <<ip_blacklist, user_blacklist, event_log>>
market_safety_manager ==
    <<market_bets, market_bets_poisoned, blacklisted_addresses, callers>>
vars == <<config, threads, security_manager, market_safety_manager>>

\* SecurityManager::new
SecurityManagerNew ==
    /\ ip_blacklist = {}
    /\ user_blacklist = {}
    /\ event_log = <<>>
\* MarketSafetyManager::new, with no map entry and nobody on the blacklist
MarketSafetyManagerNew ==
    /\ market_bets = <<>>
    /\ market_bets_poisoned = FALSE
    /\ blacklisted_addresses = <<>>
\* the services as constructed, and no thread calling them
ServicesUnused ==
    /\ SecurityManagerNew
    /\ MarketSafetyManagerNew
    /\ callers = <<>>

NoResult == [tag |-> "None", kind |-> "", index |-> 0, msg |-> "", val |-> <<>>]

MaxThreads == 2
Thread(b) ==
    [bets |-> b, call |-> "idle", outcome_index |-> 0, result |-> NoResult,
     js |-> NoJsValue]
\* the thread once operation op, called with index i, has returned r in the
\* engine and to_js(op, r) to the host
Returned(thread, op, i, r) ==
    [thread EXCEPT !.call = op, !.outcome_index = i, !.result = r,
                   !.js = to_js(op, r)]

\* the first caller, the only one of a single-threaded host
caller == threads[1]
bets == caller.bets
call == caller.call
outcome_index == caller.outcome_index
result == caller.result
js == caller.js

AllConfigs ==
    {MarketConfig(l, n, t) : l \in LiquidityValues, n \in 0..MaxOutcomes,
                             t \in MarketType}

\* one caller, every configuration and every bet list
Init ==
    /\ config \in AllConfigs
    /\ threads \in [{1} -> {Thread(b) : b \in SeqsUpTo(BetValues, MaxBets)}]
    /\ ServicesUnused

\* the configurations and bet lists of the concurrent callers
ConcurrentConfigs ==
    {MarketConfig(F64(10, 0), 2, "Binary"), MarketConfig(F64(-10, 0), 2, "Binary")}
ThreadBets ==
    {<<Bet(0, F64(50, 0)), Bet(1, F64(30, 0))>>, <<Bet(OutOfRangeId, F64(50, 0))>>}
\* MaxThreads callers share the one engine
ConcurrentInit ==
    /\ config \in ConcurrentConfigs
    /\ threads \in [1..MaxThreads -> {Thread(b) : b \in ThreadBets}]
    /\ ServicesUnused

\* the bet lists of the first n callers, one after the other
RECURSIVE BetsOfAll(_)
BetsOfAll(n) == IF n = 0 THEN <<>> ELSE BetsOfAll(n - 1) \o threads[n].bets
\* an engine that would accumulate the stakes of every caller in one buffer
CalculateProbabilitiesSharedTotals ==
    \E t \in DOMAIN threads :
        /\ threads[t].call = "idle"
        /\ threads' = [threads EXCEPT ![t] =
               Returned(@, "calculate_probabilities", 0,
                        calculate_probabilities(config, BetsOfAll(Len(threads))))]
        /\ UNCHANGED <<config, security_manager, market_safety_manager>>

CalculateProbabilities ==
    \E t \in DOMAIN threads :
        /\ threads[t].call = "idle"
        /\ threads' = [threads EXCEPT ![t] =
               Returned(@, "calculate_probabilities", 0,
                        calculate_probabilities(config, @.bets))]
        /\ UNCHANGED <<config, security_manager, market_safety_manager>>

CalculatePrice ==
    \E t \in DOMAIN threads, i \in 0..(MaxOutcomes + 1) :
        /\ threads[t].call = "idle"
        /\ threads' = [threads EXCEPT ![t] =
               Returned(@, "calculate_price", i, calculate_price(config, @.bets, i))]
        /\ UNCHANGED <<config, security_manager, market_safety_manager>>

\* a market maker that would adopt the liquidity it recommends
SimulateStrategyAdopting ==
    \E t \in DOMAIN threads :
        /\ threads[t].call = "idle"
        /\ \E r \in {simulate_strategy(config, threads[t].bets)} :
             /\ threads' = [threads EXCEPT ![t] = Returned(@, "simulate_strategy", 0, r)]
             /\ config' = IF IsOk(r)
                          THEN [config EXCEPT !.liquidity_param =
                                                  r.val.recommended_liquidity]
                          ELSE config
             /\ UNCHANGED <<security_manager, market_safety_manager>>

SimulateStrategy ==
    \E t \in DOMAIN threads :
        /\ threads[t].call = "idle"
        /\ threads' = [threads EXCEPT ![t] =
               Returned(@, "simulate_strategy", 0, simulate_strategy(config, @.bets))]
        /\ UNCHANGED <<config, security_manager, market_safety_manager>>

AssessRisk ==
    \E t \in DOMAIN threads :
        /\ threads[t].call = "idle"
        /\ threads' = [threads EXCEPT ![t] =
               Returned(@, "assess_risk", 0, assess_risk(config, @.bets))]
        /\ UNCHANGED <<config, security_manager, market_safety_manager>>

\* the caller drops the result and is ready for the next call
Return ==
    \E t \in DOMAIN threads :
        /\ threads[t].call # "idle"
        /\ threads' = [threads EXCEPT ![t] = Thread(@.bets)]
        /\ UNCHANGED <<config, security_manager, market_safety_manager>>

Next ==
    \/ CalculateProbabilities
    \/ CalculatePrice
    \/ SimulateStrategy
    \/ AssessRisk
    \/ Return

Spec == Init /\ [][Next]_vars
Concurrent == ConcurrentInit /\ [][Next]_vars

\* bet lists that place equal and unequal stakes on the same and on different
\* outcomes, for one caller of an engine with a positive liquidity_param
StakeConfigs ==
    {MarketConfig(l, n, "Binary") : l \in {F64(10, 0), TinyF64}, n \in 2..MaxOutcomes}
StakeBets ==
    {Bet(0, F64(50, 0)), Bet(1, F64(50, 0)), Bet(0, F64(30, 0)), Bet(1, F64(30, 0)),
     Bet(2, F64(50, 0)), Bet(0, BigAmount)}
StakeListsInit ==
    /\ config \in StakeConfigs
    /\ threads \in [{1} -> {Thread(b) : b \in SeqsUpTo(StakeBets, MaxBets)}]
    /\ ServicesUnused
StakeLists == StakeListsInit /\ [][Next]_vars

\* ------------------------------------------------------------------------
\* SecurityManager (security/security_manager.rs)
\* ------------------------------------------------------------------------
\* the engine as constructed, with a caller that never calls it
EngineUnused ==
    /\ config = MarketConfig(F64(10, 0), 2, "Binary")
    /\ threads = [t \in {1} |-> Thread(<<>>)]

SecurityThreatLevel == {"Low", "Medium", "High", "Critical"}
\* a SecurityEvent as far as the manager reads it: id, timestamp and details
\* are stored with the event and never looked at
SecurityEvent(event_type, threat_level, source_ip, user_id) ==
    [event_type |-> event_type, threat_level |-> threat_level,
     source_ip |-> source_ip, user_id |-> user_id]
SecurityEvents ==
    {SecurityEvent("LoginFailure", l, ip, user) :
        l \in SecurityThreatLevel,
        ip \in {None, Some("192.168.1.100")},
        user \in {None, Some("user123")}}

\* the capacity of the event log: 1000 in SecurityManager::new, smaller here
max_event_log_size == 2

\* the arm of evaluate_threat that acts: High | Critical
triggers_automatic_action(threat_level) == threat_level \in {"High", "Critical"}
\* if let Some(v) = option { set.insert(v) }
insert_if_some(set, option) == IF option.some THEN set \cup {option.val} ELSE set

\* SecurityManager::log_security_event, evaluate_threat included
LogSecurityEvent ==
    \E event \in SecurityEvents :
        /\ event_log' = Append(IF Len(event_log) >= max_event_log_size
                               THEN Tail(event_log) ELSE event_log, event)
        /\ ip_blacklist' = IF triggers_automatic_action(event.threat_level)
                           THEN insert_if_some(ip_blacklist, event.source_ip)
                           ELSE ip_blacklist
        /\ user_blacklist' = IF triggers_automatic_action(event.threat_level)
                             THEN insert_if_some(user_blacklist, event.user_id)
                             ELSE user_blacklist
        /\ UNCHANGED <<config, threads, market_safety_manager>>

is_ip_blacklisted(ip) == ip \in ip_blacklist
is_user_blacklisted(user_id) == user_id \in user_blacklist
\* event_log.iter().rev().take(limit)
get_recent_events(limit) ==
    [i \in 1..(IF limit < Len(event_log) THEN limit ELSE Len(event_log)) |->
        event_log[Len(event_log) + 1 - i]]

SecurityInit ==
    /\ EngineUnused
    /\ SecurityManagerNew
    /\ MarketSafetyManagerNew
    /\ callers = <<>>
SecurityNext == LogSecurityEvent
Security == SecurityInit /\ [][SecurityNext]_vars

\* ------------------------------------------------------------------------
\* MarketSafetyManager (engine/src/safety/market_safety_manager.rs)
\* ------------------------------------------------------------------------
\* MarketSafetyConfig::default(); the ratio 0.1 as a fraction
max_market_volume == 1000000
max_single_bet_ratio == [num |-> 1, den |-> 10]
manipulation_detection_window == 300

\* a U256: its lowest 64-bit word, and whether a higher word is set
U256(low) == [high |-> 0, low |-> low]
BeyondU64 == [high |-> 1, low |-> 0]
\* U256::as_u64: None where it panics
as_u64(u) == IF u.high # 0 THEN None ELSE Some(u.low)

BetRiskProfile(amount, volume, timestamp, user_address, market_id) ==
    [bet_amount |-> amount, market_volume |-> volume,
     timestamp |-> timestamp, user_address |-> user_address,
     market_id |-> market_id]
Addresses == {"0x742d35Cc", "0x1111aaaa"}
MarketIds == {"market_1", "market_2"}
\* the bet of the test (a tenth of the volume), a bet above the ratio, a bet on
\* a market above the volume limit, and an amount that does not fit a u64
BetSizes ==
    {<<U256(5000), U256(50000)>>, <<U256(6000), U256(50000)>>,
     <<U256(1), U256(2000000)>>, <<BeyondU64, U256(50000)>>}
SafetyBets ==
    {BetRiskProfile(size[1], size[2], 0, a, m) :
        size \in BetSizes, a \in Addresses, m \in MarketIds}
\* the bets of concurrent callers: below and above the ratio, on one market
RacingBets ==
    {BetRiskProfile(U256(amount), U256(50000), 0, a, "market_1") :
        amount \in {5000, 6000}, a \in Addresses}
\* Utc::now() against the timestamp 0 of the bets: inside or outside the window
Times == {0, manipulation_detection_window}

\* Result<RiskLevel, String>, and the abort of the calling thread
RiskOk(risk_level) == [tag |-> "Ok", val |-> risk_level]
RiskErr(reason) == [tag |-> "Err", val |-> reason]
RiskPanic(reason) == [tag |-> "Panic", val |-> reason]
NoRisk == [tag |-> "None", val |-> ""]

\* a thread outside assess_bet_risk, after the blacklist check (the lock of the
\* blacklist released, that of market_bets not yet taken), and after the return
NoBet == BetRiskProfile(U256(0), U256(0), 0, "", "")
IdleCaller == [pc |-> "idle", bet |-> NoBet, result |-> NoRisk]
CheckedCaller(bet) == [pc |-> "checked", bet |-> bet, result |-> NoRisk]
ReturnedCaller(bet, r) == [pc |-> "returned", bet |-> bet, result |-> r]

\* the number of bets a run may put in the histories
MaxHistory == 4
RECURSIVE TotalLength(_, _)
TotalLength(histories, ids) ==
    IF ids = {} THEN 0
    ELSE Bind(CHOOSE m \in ids : TRUE, LAMBDA m :
           Len(histories[m]) + TotalLength(histories, ids \ {m}))
\* the bets in the histories and those on their way into them
BetsUnderway ==
    TotalLength(market_bets, DOMAIN market_bets)
        + Cardinality({t \in DOMAIN callers : callers[t].pc = "checked"})

\* MarketSafetyManager::is_address_blacklisted
is_address_blacklisted(address) ==
    \E i \in DOMAIN blacklisted_addresses : blacklisted_addresses[i] = address
\* a variant of blacklist_address that pushes without looking
push_address(address) == Append(blacklisted_addresses, address)
\* MarketSafetyManager::blacklist_address: the blacklist it leaves
blacklist_address(address) ==
    IF is_address_blacklisted(address) THEN blacklisted_addresses
    ELSE Append(blacklisted_addresses, address)

\* bet_amount_f64 / market_volume_f64 > max_single_bet_ratio in f64: x / 0 is
\* infinite for x > 0 and NaN, greater than nothing, for x = 0
exceeds_single_bet_ratio(amount, volume) ==
    IF volume = 0 THEN amount > 0
    ELSE amount * max_single_bet_ratio.den > max_single_bet_ratio.num * volume
\* the bets of a history that are younger than the window at time now
recent_bets(history, now) ==
    {i \in DOMAIN history : now - history[i].timestamp < manipulation_detection_window}
risk_level_of(count) ==
    IF count <= 2 THEN "Low"
    ELSE IF count <= 5 THEN "Medium"
    ELSE IF count <= 10 THEN "High"
    ELSE "Critical"
\* push(bet), and remove(0) above 100 entries
pushed_and_trimmed(history, bet) ==
    Bind(Append(history, bet), LAMBDA grown :
      IF Len(grown) > 100 THEN Tail(grown) ELSE grown)

\* market_bets.entry(market_id).or_insert_with(Vec::new)
with_entry(histories, market_id) ==
    [m \in DOMAIN histories \cup {market_id} |->
        IF m \in DOMAIN histories THEN histories[m] ELSE <<>>]
Outcome_of_assess(r, histories, poisoned, blacklist) ==
    [result |-> r, market_bets |-> histories, market_bets_poisoned |-> poisoned,
     blacklisted_addresses |-> blacklist]

\* assess_bet_risk from self.market_bets.lock().unwrap() to the return: what
\* it answers and what it leaves behind, for a bet that passed the blacklist
\* check
assess_under_lock(bet, now) ==
    IF market_bets_poisoned
    THEN Outcome_of_assess(RiskPanic("PoisonError"), market_bets, TRUE,
                           blacklisted_addresses)
    ELSE
    Bind(with_entry(market_bets, bet.market_id), LAMBDA entered :
      IF IsNone(as_u64(bet.bet_amount)) \/ IsNone(as_u64(bet.market_volume))
      THEN Outcome_of_assess(RiskPanic("Integer overflow when casting to u64"),
                             entered, TRUE, blacklisted_addresses)
      ELSE IF as_u64(bet.market_volume).val > max_market_volume
      THEN Outcome_of_assess(RiskErr("Market volume exceeds maximum allowed"),
                             entered, FALSE, blacklisted_addresses)
      ELSE IF exceeds_single_bet_ratio(as_u64(bet.bet_amount).val,
                                       as_u64(bet.market_volume).val)
      THEN Outcome_of_assess(RiskOk("Critical"), entered, FALSE,
                             blacklist_address(bet.user_address))
      ELSE Outcome_of_assess(
               RiskOk(risk_level_of(Cardinality(recent_bets(entered[bet.market_id], now)))),
               [entered EXCEPT ![bet.market_id] = pushed_and_trimmed(@, bet)],
               FALSE, blacklisted_addresses))

\* the bets the callers submit: every kind from a single caller
SubmittedBets == IF Len(callers) = 1 THEN SafetyBets ELSE RacingBets

\* assess_bet_risk up to the end of is_address_blacklisted: a blacklisted
\* address is answered at once, any other goes on to the lock of market_bets
CheckBlacklist ==
    \E t \in DOMAIN callers, bet \in SubmittedBets :
        /\ callers[t].pc = "idle"
        /\ IF is_address_blacklisted(bet.user_address)
           THEN callers' = [callers EXCEPT ![t] =
                    ReturnedCaller(bet, RiskErr("User address is blacklisted"))]
           ELSE /\ BetsUnderway < MaxHistory
                /\ callers' = [callers EXCEPT ![t] = CheckedCaller(bet)]
        /\ UNCHANGED <<config, threads, security_manager, market_bets,
                       market_bets_poisoned, blacklisted_addresses>>

\* the rest of assess_bet_risk, one critical section of market_bets
UpdateHistory ==
    \E t \in DOMAIN callers, now \in Times :
        /\ callers[t].pc = "checked"
        /\ \E after \in {assess_under_lock(callers[t].bet, now)} :
             /\ callers' = [callers EXCEPT ![t] =
                                ReturnedCaller(@.bet, after.result)]
             /\ market_bets' = after.market_bets
             /\ market_bets_poisoned' = after.market_bets_poisoned
             /\ blacklisted_addresses' = after.blacklisted_addresses
        /\ UNCHANGED <<config, threads, security_manager>>

\* MarketSafetyManager::blacklist_address, called from outside
BlacklistAddress ==
    \E address \in Addresses :
        /\ blacklisted_addresses' = blacklist_address(address)
        /\ UNCHANGED <<config, threads, security_manager, market_bets,
                       market_bets_poisoned, callers>>

\* the caller has its answer and may call again
ReturnFromAssess ==
    \E t \in DOMAIN callers :
        /\ callers[t].pc = "returned"
        /\ callers' = [callers EXCEPT ![t] = IdleCaller]
        /\ UNCHANGED <<config, threads, security_manager, market_bets,
                       market_bets_poisoned, blacklisted_addresses>>

SafetyNext ==
    \/ CheckBlacklist
    \/ UpdateHistory
    \/ BlacklistAddress
    \/ ReturnFromAssess

\* one thread calls the manager
SafetyInit ==
    /\ EngineUnused
    /\ SecurityManagerNew
    /\ MarketSafetyManagerNew
    /\ callers = [t \in {1} |-> IdleCaller]
Safety == SafetyInit /\ [][SafetyNext]_vars

\* MaxThreads threads share the manager (&self behind an Arc)
SafetyConcurrentInit ==
    /\ EngineUnused
    /\ SecurityManagerNew
    /\ MarketSafetyManagerNew
    /\ callers = [t \in 1..MaxThreads |-> IdleCaller]
SafetyConcurrent == SafetyConcurrentInit /\ [][SafetyNext]_vars

\* ------------------------------------------------------------------------
\* Properties
\* ------------------------------------------------------------------------
\* a valid configuration: at least two outcomes, liquidity_param finite and > 0
ValidConfig ==
    /\ config.num_outcomes >= 2
    /\ config.liquidity_param.cls = "fin"
    /\ config.liquidity_param.m > 0
\* a valid bet list: every option_id in range, every amount finite and >= 0
ValidBets ==
    \A i \in 1..Len(bets) :
        /\ bets[i].option_id < config.num_outcomes
        /\ bets[i].amount.cls = "fin"
        /\ bets[i].amount.m >= 0
ValidInput == ValidConfig /\ ValidBets
\* liquidity_param has a Decimal value
RepresentableLiquidity == ~IsNone(from_f64(config.liquidity_param))
IndicesInRange == \A i \in 1..Len(bets) : bets[i].option_id < config.num_outcomes

\* the value of a probability in units of 10^-MaxScale
Ulps(p) == p.m * (10 ^ (MaxScale - p.e))
RECURSIVE SumUlps(_, _)
SumUlps(v, i) == IF i > Len(v) THEN 0 ELSE Ulps(v[i]) + SumUlps(v, i + 1)
\* epsilon: one unit in the last place for every entry
SumsToOne(v) == Abs(SumUlps(v, 1) - 10 ^ MaxScale) <= Len(v)

F64Le(a, b) == DecLe(from_f64(a).val, from_f64(b).val)

\* C1: for every valid config (liquidity_param representable) and valid bet
\* list, calculate_probabilities succeeds and the returned entries sum to 1
\* within epsilon.
C1_SucceedsAndSumsToOne ==
    (call = "calculate_probabilities" /\ ValidInput /\ RepresentableLiquidity)
        => (IsOk(result) /\ SumsToOne(result.val))
\* valid input on which the accumulation of the stakes aborts
C1_Witness ==
    /\ call = "calculate_probabilities" /\ ValidInput /\ RepresentableLiquidity
    /\ result = Panic("Addition overflowed")

\* C2: for valid input, the vector calculate_probabilities returns has exactly
\* num_outcomes entries, each strictly greater than 0 and strictly less than 1.
C2_EntriesStrictlyBetween0And1 ==
    (call = "calculate_probabilities" /\ ValidInput /\ IsOk(result))
        => /\ Len(result.val) = config.num_outcomes
           /\ \A i \in 1..Len(result.val) :
                 DecLt(ZERO, result.val[i]) /\ DecLt(result.val[i], ONE)
\* all stake on a single outcome, and a large one
C2_Witness ==
    /\ call = "calculate_probabilities" /\ ValidInput /\ IsOk(result)
    /\ config.num_outcomes = MaxOutcomes
    /\ bets = <<Bet(0, BigAmount)>>

\* C3: for every outcome index i < num_outcomes, calculate_price(bets, i)
\* returns the i-th entry of calculate_probabilities(bets), and ends as
\* calculate_probabilities(bets) ends whenever that call does not succeed.
C3_PriceIsProbability ==
    (call = "calculate_price" /\ outcome_index < config.num_outcomes)
        => Bind(calculate_probabilities(config, bets), LAMBDA probabilities :
             IF IsOk(probabilities)
             THEN result = Ok(probabilities.val[outcome_index + 1])
             ELSE result = probabilities)
\* a price of an outcome other than the first, different from the first's
C3_Witness ==
    /\ call = "calculate_price" /\ outcome_index = 1 /\ IsOk(result)
    /\ result.val # calculate_probabilities(config, bets).val[1]

\* C4: for valid input, the probabilities field of assess_risk and the
\* probability vector behind the quotes of simulate_strategy equal
\* calculate_probabilities(bets).
C4_SameAlgorithm ==
    (ValidInput /\ IsOk(result) /\ call \in {"assess_risk", "simulate_strategy"})
        => Bind(calculate_probabilities(config, bets), LAMBDA probabilities :
             /\ IsOk(probabilities)
             /\ call = "assess_risk"
                    => result.val.probabilities = F64Vec(probabilities.val)
             /\ call = "simulate_strategy"
                    => /\ result.val.bid_prices
                            = F64Vec(calculate_bid_prices(probabilities.val).val)
                       /\ result.val.ask_prices
                            = F64Vec(calculate_ask_prices(probabilities.val).val))
\* the risk engine reports linear shares where the engine prices exponentially
C4_Witness ==
    /\ call = "assess_risk" /\ ValidInput /\ IsOk(result)
    /\ bets = <<Bet(0, F64(50, 0)), Bet(1, F64(30, 0))>>
    /\ IsOk(calculate_probabilities(config, bets))
    /\ result.val.probabilities # F64Vec(calculate_probabilities(config, bets).val)

\* C5: for valid input and every outcome i, bid_prices[i] <= p[i] <=
\* ask_prices[i], p being what calculate_probabilities returns for the bets.
C5_QuotesBracketPrice ==
    (call = "simulate_strategy" /\ ValidInput /\ IsOk(result))
        => Bind(calculate_probabilities(config, bets), LAMBDA probabilities :
             IsOk(probabilities)
                => \A i \in 1..Len(probabilities.val) :
                      /\ F64Le(result.val.bid_prices[i], to_f64(probabilities.val[i]))
                      /\ F64Le(to_f64(probabilities.val[i]), result.val.ask_prices[i]))
\* an ask below the price of the outcome
C5_Witness ==
    /\ call = "simulate_strategy" /\ ValidInput /\ IsOk(result)
    /\ IsOk(calculate_probabilities(config, bets))
    /\ ~F64Le(to_f64(calculate_probabilities(config, bets).val[1]),
              result.val.ask_prices[1])

\* C6: calculate_probabilities fails with InvalidOutcomeIndex whenever a bet
\* has option_id >= num_outcomes, whatever the other bets and liquidity_param
\* are, and the error carries the option_id of the first such bet.
C6_FirstOffendingBetReported ==
    (call = "calculate_probabilities" /\ ~IndicesInRange)
        => \E i \in 1..Len(bets) :
              /\ bets[i].option_id >= config.num_outcomes
              /\ \A j \in 1..(i - 1) : bets[j].option_id < config.num_outcomes
              /\ result = InvalidOutcomeIndex(bets[i].option_id)
\* two offending bets with different indices and a liquidity_param that is NaN
C6_Witness ==
    /\ call = "calculate_probabilities"
    /\ Len(bets) = 2
    /\ bets[1].option_id >= config.num_outcomes
    /\ bets[2].option_id >= config.num_outcomes
    /\ bets[1].option_id # bets[2].option_id
    /\ config.liquidity_param = NaN
    /\ result = InvalidOutcomeIndex(bets[1].option_id)

\* C7: given bets whose indices are all in range, calculate_probabilities
\* fails with InvalidLiquidity whenever liquidity_param is not finite, is zero
\* or is negative.
C7_NonPositiveLiquidityRejected ==
    (/\ call = "calculate_probabilities" /\ IndicesInRange
     /\ (config.liquidity_param.cls # "fin" \/ config.liquidity_param.m <= 0))
        => (IsErr(result) /\ result.kind = "InvalidLiquidity")
\* probabilities computed from a negative liquidity_param
C7_Witness ==
    /\ call = "calculate_probabilities" /\ IndicesInRange
    /\ config.liquidity_param.m < 0
    /\ IsOk(result)

\* C8: calculate_price fails with InvalidOutcomeIndex(outcome_index) whenever
\* outcome_index >= num_outcomes, for every bet list: the index is validated
\* before the bets are examined.
C8_IndexValidatedFirst ==
    (call = "calculate_price" /\ outcome_index >= config.num_outcomes)
        => result = InvalidOutcomeIndex(outcome_index)
\* an index out of range together with a bet out of range at another index
C8_Witness ==
    /\ call = "calculate_price" /\ outcome_index >= config.num_outcomes
    /\ Len(bets) > 0
    /\ bets[1].option_id >= config.num_outcomes
    /\ bets[1].option_id # outcome_index
    /\ result = InvalidOutcomeIndex(outcome_index)

\* C9: every operation ends by returning a complete result or an error, never
\* by aborting, and a configuration with num_outcomes = 0 is reported as
\* InsufficientData.
C9_NeverAborts ==
    call # "idle"
        => /\ IsOk(result) \/ IsErr(result)
           /\ (config.num_outcomes = 0 /\ bets = <<>> /\ RepresentableLiquidity)
                 => (IsErr(result) /\ result.kind = "InsufficientData")
\* a call on a configuration without outcomes that aborts
C9_Witness ==
    /\ call = "calculate_probabilities"
    /\ config.num_outcomes = 0
    /\ result = Panic("Division by zero")

\* the exponents total / scale_factor of the outcomes, or None when the totals
\* or the scale factor cannot be computed
Exponents ==
    Bind(checked_div(from_f64(config.liquidity_param).val,
                     DecFromInt(config.num_outcomes)).val, LAMBDA initial_liquidity :
    Bind(Accumulate(Seed(initial_liquidity, config.num_outcomes), bets, 1),
         LAMBDA outcome_totals :
      IF IsNone(outcome_totals) THEN None
      ELSE Collect([i \in 1..config.num_outcomes |->
                      scaled_total(outcome_totals.val[i],
                                   scale_factor_of(outcome_totals.val))])))
\* 10, with the rounding of max_total / 10 allowed for
ExponentCap == Dec(10 ^ (MantDigits - 2) + 1, MantDigits - 3)

\* C10: for valid input (liquidity_param representable), however large the
\* stakes, calculate_probabilities does not overflow: every exponent
\* total / scale_factor lies in (0, 10], up to the rounding of the quotient,
\* and the call returns probabilities whose entries are all strictly below 1.
C10_NoOverflow ==
    (call = "calculate_probabilities" /\ ValidInput /\ RepresentableLiquidity)
        => /\ IsOk(result)
           /\ \A i \in 1..Len(result.val) : DecLt(result.val[i], ONE)
           /\ Bind(Exponents, LAMBDA exponents :
                /\ ~IsNone(exponents)
                /\ \A i \in 1..Len(exponents.val) :
                      /\ DecLe(ZERO, exponents.val[i])
                      /\ DecLe(exponents.val[i], ExponentCap))
\* two stakes on one outcome, each within the range of Decimal, whose sum is not
C10_Witness ==
    /\ call = "calculate_probabilities" /\ ValidInput
    /\ bets = <<Bet(0, BigAmount), Bet(0, BigAmount)>>
    /\ config.liquidity_param = F64(10, 0)
    /\ IsPanic(result)

\* what the operation named op returns to a caller that runs it alone on an
\* engine built from configuration c, for bet list b and index i
Outcome(op, c, b, i) ==
    CASE op = "calculate_probabilities" -> calculate_probabilities(c, b)
      [] op = "calculate_price" -> calculate_price(c, b, i)
      [] op = "simulate_strategy" -> simulate_strategy(c, b)
      [] op = "assess_risk" -> assess_risk(c, b)

\* two callers hold the outcome of the same operation on identical inputs
SameCall(t, u) ==
    /\ threads[t].call # "idle"
    /\ threads[t].call = threads[u].call
    /\ threads[t].bets = threads[u].bets
    /\ threads[t].outcome_index = threads[u].outcome_index

C12_MarketTypeIgnored ==
    (call # "idle" /\ Len(bets) < MaxBets)
        => \A t \in MarketType \ {config.market_type} :
              Outcome(call, [config EXCEPT !.market_type = t], bets, outcome_index)
                  = result
\* a successful quote on a Binary market
C12_Witness ==
    /\ call = "simulate_strategy" /\ Len(bets) = MaxBets - 1
    /\ config.market_type = "Binary"
    /\ IsOk(result)
    /\ simulate_strategy([config EXCEPT !.market_type = "Scalar"], bets) = result

\* C13: for valid input, a successful simulate_strategy result has spread >= 0
\* and recommended_liquidity > 0; recommended_liquidity being liquidity_param
\* times 1 + entropy, it is not below liquidity_param either.
C13_SpreadAndLiquidityPositive ==
    (call = "simulate_strategy" /\ ValidInput /\ IsOk(result))
        => /\ result.val.spread.cls = "fin"
           /\ result.val.spread.m >= 0
           /\ result.val.recommended_liquidity.cls = "fin"
           /\ result.val.recommended_liquidity.m > 0
           /\ F64Le(config.liquidity_param, result.val.recommended_liquidity)
\* a quote with a positive spread and a recommendation above liquidity_param
C13_Witness ==
    /\ call = "simulate_strategy" /\ ValidInput /\ IsOk(result)
    /\ bets # <<>>
    /\ result.val.spread.m > 0
    /\ result.val.recommended_liquidity # config.liquidity_param

\* ln(num_outcomes), and the rounding allowed for when a computed entropy is
\* compared with it: the accuracy of a sum of logarithms taken from the
\* six-digit tables
LnOutcomes == checked_ln(DecFromInt(config.num_outcomes)).val
EntropyEpsilon == Dec(1, 4)
Uniform(v) == \A i \in 1..Len(v) : v[i] = v[1]
\* |a - b| <= eps, for f64 a and Decimal b
F64Near(a, b, eps) ==
    Bind(from_f64(a).val, LAMBDA d :
      /\ DecLe(d, checked_add(b, eps).val)
      /\ DecLe(b, checked_add(d, eps).val))

C15_ConcentrationIsLargestEntry ==
    (call = "assess_risk" /\ ValidInput /\ IsOk(result))
        => /\ \E i \in 1..Len(result.val.probabilities) :
                 result.val.concentration = result.val.probabilities[i]
           /\ \A i \in 1..Len(result.val.probabilities) :
                 F64Le(result.val.probabilities[i], result.val.concentration)
           /\ F64Le(to_f64(checked_div(ONE, DecFromInt(config.num_outcomes)).val),
                    result.val.concentration)
           /\ F64Le(result.val.concentration, F64(1, 0))
\* unequal shares: the largest is above 1/num_outcomes and is not the first
C15_Witness ==
    /\ call = "assess_risk" /\ ValidInput /\ IsOk(result)
    /\ config.num_outcomes = MaxOutcomes
    /\ result.val.concentration = result.val.probabilities[2]
    /\ result.val.concentration # result.val.probabilities[1]
    /\ result.val.concentration # result.val.probabilities[3]

\* the stakes as the engine reads them (an amount without a Decimal value
\* reads as zero), and the data model's condition that no stake is negative
Stakes == [i \in 1..Len(bets) |-> bet_amount(bets[i])] \o <<>>
NoNegativeStake == \A i \in 1..Len(bets) : bets[i].amount.m >= 0
\* r is the largest stake divided by the sum of the stakes when that sum is
\* > 0, and exactly 1 otherwise
LargestShare(r) ==
    Bind2(Stakes, r, LAMBDA amounts, liquidity_risk :
    Bind(CheckedSum(amounts).val, LAMBDA total :
      IF total.m > 0
      THEN \E i \in 1..Len(amounts) :
              /\ \A j \in 1..Len(amounts) : DecLe(amounts[j], amounts[i])
              /\ liquidity_risk = to_f64(checked_div(amounts[i], total).val)
      ELSE liquidity_risk = F64(1, 0)))
InUnitInterval(r) == F64Le(F64(0, 0), r) /\ F64Le(r, F64(1, 0))

\* C16: for every bet list on which assess_risk returns, liquidity_risk is the
\* largest stake divided by the sum of the stakes when that sum is > 0 and
\* exactly 1 otherwise; and 0 <= liquidity_risk <= 1 when no stake is negative.
C16_LiquidityRiskIsLargestShare ==
    (call = "assess_risk" /\ IsOk(result))
        => /\ LargestShare(result.val.liquidity_risk)
           /\ NoNegativeStake => InUnitInterval(result.val.liquidity_risk)
\* C16 as stated: the bounds 0 <= liquidity_risk <= 1 for every bet list
C16_AsStated ==
    (call = "assess_risk" /\ IsOk(result))
        => /\ LargestShare(result.val.liquidity_risk)
           /\ InUnitInterval(result.val.liquidity_risk)
\* two stakes of which the second is the larger
C16_Witness ==
    /\ call = "assess_risk" /\ IsOk(result) /\ NoNegativeStake
    /\ Len(bets) = 2
    /\ DecLt(Stakes[1], Stakes[2])
    /\ result.val.liquidity_risk
           = to_f64(checked_div(Stakes[2], CheckedSum(Stakes).val).val)
    /\ result.val.liquidity_risk # F64(1, 0)

\* the number of bets that carry a positive stake
PositiveStakes == Cardinality({i \in 1..Len(bets) : Stakes[i].m > 0})

Unconvertible(amount) == IsNone(from_f64(amount))
Zeroed(list) ==
    [i \in 1..Len(list) |->
        IF Unconvertible(list[i].amount) THEN Bet(list[i].option_id, F64(0, 0))
        ELSE list[i]] \o <<>>
HasUnconvertible == \E i \in 1..Len(bets) : Unconvertible(bets[i].amount)

\* C19: a bet whose amount has no Decimal value (NaN, infinite, out of range)
\* counts as a bet of amount 0: every operation returns what it returns for the
\* list with that amount replaced by 0, for every bet list shorter than
\* MaxBets, and calculate_probabilities still rejects the bet when its
\* option_id is out of range.
C19_UnconvertibleAmountIsZero ==
    /\ (call # "idle" /\ Len(bets) < MaxBets /\ HasUnconvertible)
          => /\ \A a \in {NaN, Infinity, HugeF64} :
                   /\ Unconvertible(a)
                   /\ bet_amount(Bet(0, a)) = bet_amount(Bet(0, F64(0, 0)))
             /\ result = Outcome(call, config, Zeroed(bets), outcome_index)
    /\ (/\ call = "calculate_probabilities"
        /\ \E i \in 1..Len(bets) : /\ bets[i].option_id >= config.num_outcomes
                                   /\ Unconvertible(bets[i].amount))
          => (IsErr(result) /\ result.kind = "InvalidOutcomeIndex")
\* a NaN stake on the second of MaxOutcomes outcomes, assessed as a stake of 0
C19_Witness ==
    /\ call = "assess_risk" /\ IsOk(result)
    /\ config.num_outcomes = MaxOutcomes
    /\ bets = <<Bet(1, NaN)>>
    /\ result = assess_risk(config, <<Bet(1, F64(0, 0))>>)
    /\ result # assess_risk(config, <<Bet(1, F64(30, 0))>>)

ErrorMessages == {"Invalid liquidity parameter", "Division by zero", ""}
\* every error an operation can raise: each kind with each payload
MarketErrors ==
    {InvalidOutcomeIndex(i) : i \in 0..(OutOfRangeId + 1)}
        \cup {InvalidLiquidity(reason) : reason \in ErrorMessages}
        \cup {CalculationError(reason) : reason \in ErrorMessages}
        \cup {InsufficientData(reason) : reason \in ErrorMessages}

\* C21: an error of an engine reaches the host as an error whose text no error
\* of another kind, and no InvalidOutcomeIndex with another index, would have
\* produced from the same operation.
C21_ErrorKindsDistinguishable ==
    (call # "idle" /\ IsErr(result)) =>
        /\ js.tag = "Err"
        /\ \A e \in MarketErrors :
               js_error(call, e) = js.val =>
                   e.kind = result.kind /\ e.index = result.index

\* an out-of-range index and a rejected liquidity have both been reported
C21_Witness ==
    /\ call = "calculate_probabilities"
    /\ result = InvalidOutcomeIndex(OutOfRangeId)
    /\ js.val = "Probability calculation error: InvalidOutcomeIndex("
                    \o ToString(OutOfRangeId) \o ")"
    /\ js.val # js_error(call, InvalidLiquidity("Invalid liquidity parameter"))

\* ------------------------------------------------------------------------
\* The probabilities as a function of the accumulated totals
\* ------------------------------------------------------------------------
\* the totals calculate_probabilities accumulates for (c, b): the seed of
\* every outcome plus the stakes placed on it
OutcomeTotals(c, b) ==
    Accumulate(Seed(checked_div(from_f64(c.liquidity_param).val,
                                DecFromInt(c.num_outcomes)).val,
                    c.num_outcomes), b, 1).val

\* C22 as stated: for valid input, an outcome with a greater accumulated total
\* has a strictly greater probability.
C22_AsStated ==
    (call = "calculate_probabilities" /\ ValidInput /\ IsOk(result)) =>
        Bind(OutcomeTotals(config, bets), LAMBDA outcome_totals :
          \A i, j \in 1..config.num_outcomes :
              DecLt(outcome_totals[j], outcome_totals[i])
                  => DecLt(result.val[j], result.val[i]))

\* C22: for valid input, an outcome with a greater accumulated total never has
\* a smaller probability.
C22_OrderNeverReversed ==
    (call = "calculate_probabilities" /\ ValidInput /\ IsOk(result)) =>
        Bind(OutcomeTotals(config, bets), LAMBDA outcome_totals :
          \A i, j \in 1..config.num_outcomes :
              DecLt(outcome_totals[j], outcome_totals[i])
                  => DecLe(result.val[j], result.val[i]))

\* the scenario of two bets, 50 on outcome 0 and 30 on outcome 1: the order of
\* the totals is the order of the probabilities, strictly
C22_Witness ==
    /\ call = "calculate_probabilities" /\ ValidInput /\ IsOk(result)
    /\ bets = <<Bet(0, F64(50, 0)), Bet(1, F64(30, 0))>>
    /\ DecLt(OutcomeTotals(config, bets)[2], OutcomeTotals(config, bets)[1])
    /\ DecLt(result.val[2], result.val[1])

\* all accumulated totals of (c, b) are the same
EqualTotals(c, b) ==
    Bind(OutcomeTotals(c, b), LAMBDA outcome_totals :
      \A i, j \in 1..Len(outcome_totals) : outcome_totals[i] = outcome_totals[j])
\* every entry of v is 1/n up to one unit in the last place
UniformVector(v, n) ==
    Bind(Ulps(checked_div(ONE, DecFromInt(n)).val), LAMBDA share :
      /\ Len(v) = n
      /\ \A i \in 1..Len(v) : Abs(Ulps(v[i]) - share) <= 1)

\* C23: for every valid config, whenever all accumulated totals are equal, as
\* they are for the empty bet list, the vector calculate_probabilities returns
\* has every entry equal to 1/num_outcomes up to rounding.
C23_EqualTotalsGiveUniform ==
    (/\ call = "calculate_probabilities" /\ ValidInput /\ IsOk(result)
     /\ EqualTotals(config, bets))
        => UniformVector(result.val, config.num_outcomes)
\* equal stakes on both outcomes of a binary market
C23_Witness ==
    /\ call = "calculate_probabilities" /\ ValidInput /\ IsOk(result)
    /\ bets = <<Bet(0, F64(50, 0)), Bet(1, F64(50, 0))>>
    /\ EqualTotals(config, bets)
    /\ UniformVector(result.val, 2)

\* ------------------------------------------------------------------------
\* The failures of the three engines
\* ------------------------------------------------------------------------
\* C26: simulate_strategy and assess_risk fail on exactly the inputs on which
\* calculate_probabilities fails, and with the same error.
C26_SameFailures ==
    (call \in {"simulate_strategy", "assess_risk"}) =>
        Bind(calculate_probabilities(config, bets), LAMBDA probabilities :
          /\ IsOk(result) <=> IsOk(probabilities)
          /\ ~IsOk(result) => result = probabilities)
\* a bet out of range under a liquidity_param without Decimal value: the
\* market maker reports the liquidity, calculate_probabilities the index
C26_Witness ==
    /\ call = "simulate_strategy"
    /\ config.liquidity_param = NaN
    /\ bets = <<Bet(OutOfRangeId, F64(50, 0))>>
    /\ result = InvalidLiquidity("Invalid liquidity parameter")
    /\ calculate_probabilities(config, bets) = InvalidOutcomeIndex(OutOfRangeId)

\* ------------------------------------------------------------------------
\* Rearranging the bet list
\* ------------------------------------------------------------------------
\* the list with the bets at i and j exchanged
Swapped(list, i, j) == [list EXCEPT ![i] = list[j], ![j] = list[i]]
\* a + b of two finite f64 amounts, and whether the f64 holds it exactly
f64_sum(a, b) ==
    Bind(Max2(a.e, b.e), LAMBDA e :
      F64(a.m * (10 ^ (e - a.e)) + b.m * (10 ^ (e - b.e)), e))
ExactF64(f) == Digits(Abs(f.m)) <= F64Digits
\* the list with the bets at i < j replaced by one bet of their summed amount
Merged(list, i, j) ==
    SubSeq([list EXCEPT ![i].amount = f64_sum(list[i].amount, list[j].amount)],
           1, j - 1) \o SubSeq(list, j + 1, Len(list))
Mergeable(list, i, j) ==
    /\ i < j
    /\ list[i].option_id = list[j].option_id
    /\ list[i].amount.cls = "fin" /\ list[j].amount.cls = "fin"
    /\ ExactF64(f64_sum(list[i].amount, list[j].amount))
\* the summed amount of the bets at i and j has a Decimal value
SumConvertible(list, i, j) == ~Unconvertible(f64_sum(list[i].amount, list[j].amount))

f64_product(a, k) == F64(a.m * k.m, a.e + k.e)
ScaledConfig(c, k) == [c EXCEPT !.liquidity_param = f64_product(@, k)]
ScaledBets(list, k) ==
    [i \in 1..Len(list) |-> Bet(list[i].option_id, f64_product(list[i].amount, k))] \o <<>>
\* every scaled quantity is an f64 the product fills exactly, with a Decimal value
ScalesExactly(c, list, k) ==
    /\ ExactF64(ScaledConfig(c, k).liquidity_param)
    /\ ~Unconvertible(ScaledConfig(c, k).liquidity_param)
    /\ \A i \in 1..Len(list) :
           /\ ExactF64(ScaledBets(list, k)[i].amount)
           /\ ~Unconvertible(ScaledBets(list, k)[i].amount)
\* the factors k: 1/2, 2, 3, 10 and 19
ScaleFactors == {F64(5, 1), F64(2, 0), F64(3, 0), F64(10, 0), F64(19, 0)}
\* the entries of v and w differ by at most eps
VectorsNear(v, w, eps) ==
    /\ Len(v) = Len(w)
    /\ \A i \in 1..Len(v) : DecLe(DecAbs(checked_sub(v[i], w[i]).val), eps)
\* the accuracy of a probability: that of the exponential
ProbabilityEpsilon == Dec(1, 5)

\* C28 as stated: for valid input on which calculate_probabilities returns a
\* vector, the call with liquidity_param and every amount multiplied by a
\* factor k > 0 returns the same vector.
C28_AsStated ==
    (call = "calculate_probabilities" /\ ValidInput /\ IsOk(result)) =>
        \A k \in ScaleFactors :
            ScalesExactly(config, bets, k)
                => calculate_probabilities(ScaledConfig(config, k), ScaledBets(bets, k))
                       = result

\* C28: for valid input on which calculate_probabilities returns a vector, the
\* call with liquidity_param and every amount multiplied by a factor k > 0
\* returns a vector whose entries are the same up to rounding.
C28_ScaleInvariantUpToRounding ==
    (call = "calculate_probabilities" /\ ValidInput /\ IsOk(result)) =>
        \A k \in ScaleFactors :
            ScalesExactly(config, bets, k)
                => Bind(calculate_probabilities(ScaledConfig(config, k),
                                                ScaledBets(bets, k)), LAMBDA scaled :
                     /\ IsOk(scaled)
                     /\ VectorsNear(scaled.val, result.val, ProbabilityEpsilon))
\* the three-outcome market with 50 on outcome 0 and 30 on outcome 1, and the
\* same market three times as large: other totals, the same probabilities
C28_Witness ==
    /\ call = "calculate_probabilities" /\ ValidInput /\ IsOk(result)
    /\ config.num_outcomes = MaxOutcomes
    /\ bets = <<Bet(0, F64(50, 0)), Bet(1, F64(30, 0))>>
    /\ ScalesExactly(config, bets, F64(3, 0))
    /\ OutcomeTotals(ScaledConfig(config, F64(3, 0)), ScaledBets(bets, F64(3, 0)))
           # OutcomeTotals(config, bets)
    /\ calculate_probabilities(ScaledConfig(config, F64(3, 0)),
                               ScaledBets(bets, F64(3, 0))) = result

\* ------------------------------------------------------------------------
\* The spread of the market maker
\* ------------------------------------------------------------------------
\* (1.05 - 0.95) / num_outcomes
NominalSpread(num_outcomes) ==
    checked_div(checked_sub(AskFactor, BidFactor).val, DecFromInt(num_outcomes)).val
\* one unit in the last digit of a price near 1
SpreadEpsilon == Dec(1, MantDigits - 1)

\* C29: for valid input, the spread simulate_strategy returns is
\* 0.10 / num_outcomes up to rounding, whatever the bets.
C29_SpreadIsTenthOverOutcomes ==
    (call = "simulate_strategy" /\ ValidInput /\ IsOk(result))
        => F64Near(result.val.spread, NominalSpread(config.num_outcomes), SpreadEpsilon)
\* the binary market with 50 on outcome 0 and 30 on outcome 1: a spread of 0.05
C29_Witness ==
    /\ call = "simulate_strategy" /\ ValidInput /\ IsOk(result)
    /\ bets = <<Bet(0, F64(50, 0)), Bet(1, F64(30, 0))>>
    /\ config.num_outcomes = 2
    /\ result.val.spread = F64(5, 2)
    /\ result.val.bid_prices[1] # result.val.bid_prices[2]

\* ------------------------------------------------------------------------
\* SecurityManager: the automatic response
\* ------------------------------------------------------------------------
\* the event logged last
last_event == event_log[Len(event_log)]

\* C24: after log_security_event with an event of threat level Medium that
\* carries a source_ip and a user_id, the event is in the log and both the ip
\* and the user are blacklisted.
C24_MediumEventBlacklists ==
    (/\ event_log # <<>>
     /\ last_event.threat_level = "Medium"
     /\ last_event.source_ip.some /\ last_event.user_id.some)
        => /\ get_recent_events(1) = <<last_event>>
           /\ is_ip_blacklisted(last_event.source_ip.val)
           /\ is_user_blacklisted(last_event.user_id.val)
\* the event of the test, a Medium login failure from 192.168.1.100 by
\* user123, logged and neither of the two blacklisted
C24_Witness ==
    /\ event_log = <<SecurityEvent("LoginFailure", "Medium",
                                   Some("192.168.1.100"), Some("user123"))>>
    /\ ~is_ip_blacklisted("192.168.1.100")
    /\ ~is_user_blacklisted("user123")

\* ------------------------------------------------------------------------
\* MarketSafetyManager: the blacklist
\* ------------------------------------------------------------------------
NoAddressTwice ==
    \A i, j \in DOMAIN blacklisted_addresses :
        blacklisted_addresses[i] = blacklisted_addresses[j] => i = j
\* thread t enters assess_bet_risk in this step
Enters(t) == callers[t].pc = "idle" /\ callers'[t].pc # "idle"

\* C25: an address on the blacklist stays on it in every later state, however
\* it got there; the blacklist never holds an address twice; and a call of
\* assess_bet_risk for a blacklisted address returns Err and leaves the bet
\* histories as they are.
C25_BlacklistIsPermanent ==
    [][/\ \A a \in Addresses :
              is_address_blacklisted(a) => is_address_blacklisted(a)'
       /\ NoAddressTwice'
       /\ \A t \in DOMAIN callers :
              (Enters(t) /\ is_address_blacklisted(callers'[t].bet.user_address))
                  => /\ callers'[t].pc = "returned"
                     /\ callers'[t].result = RiskErr("User address is blacklisted")
                     /\ market_bets' = market_bets]_vars
\* both addresses on the blacklist, a market whose only bet so far was not
\* recorded, and a later bet of a blacklisted address turned away
C25_Witness ==
    /\ Len(blacklisted_addresses) = 2
    /\ \E m \in DOMAIN market_bets : market_bets[m] = <<>>
    /\ callers[1].pc = "returned"
    /\ callers[1].result = RiskErr("User address is blacklisted")
    /\ is_address_blacklisted(callers[1].bet.user_address)

\* thread t leaves the critical section in this step with its bet recorded
Records(t) ==
    /\ callers[t].pc = "checked" /\ callers'[t].pc = "returned"
    /\ callers'[t].result.tag = "Ok"
    /\ callers'[t].result.val # "Critical"
    /\ market_bets'[callers[t].bet.market_id]
           = Append(with_entry(market_bets, callers[t].bet.market_id)
                        [callers[t].bet.market_id], callers[t].bet)

\* C30: under every interleaving of concurrent assess_bet_risk calls, no bet is
\* recorded in a history and answered Ok once its address is on the blacklist.
C30_CheckAndUpdateAtomic ==
    [][\A t \in DOMAIN callers :
           Records(t) => ~is_address_blacklisted(callers[t].bet.user_address)]_vars
\* a thread between its blacklist check and the lock of market_bets, while a
\* bet of another thread has put its address on the blacklist
C30_Witness ==
    \E t, u \in DOMAIN callers :
        /\ t # u
        /\ callers[t].pc = "checked"
        /\ callers[u].pc = "returned"
        /\ callers[u].result = RiskOk("Critical")
        /\ callers[u].bet.user_address = callers[t].bet.user_address
        /\ is_address_blacklisted(callers[t].bet.user_address)

====
